---- MODULE Spec2Model ----
(***************************************************************************)
(* A model of the Binance historical kline downloader (download_data.py):  *)
(* the command line driver main(), the fetcher download_spot_klines, the   *)
(* parser read_klines_file, the validator _validate_klines_data, the       *)
(* merger merge_klines_files and the verifier verify_data_integrity.       *)
(*                                                                         *)
(* Spec      the driver: runs and re-runs of main() over a local cache.    *)
(* SpecData  the parser, validator, merger and verifier applied to cache   *)
(*           directories drawn from a bounded pool of archives.            *)
(***************************************************************************)
EXTENDS Integers, Sequences, FiniteSets, TLC

VARIABLES
    start_date,     \* main: start_date (line 394)
    end_date,       \* main: end_date (line 395)
    verify_only,    \* main: args.verify_only
    pc,             \* position of main: "for", "while", "done", "aborted"
    pair_idx,       \* index of the (symbol, period) pair the for loop is at
    current_date,   \* main: current_date
    visited,        \* month keys the while loop has iterated for this pair
    cached,         \* cache paths holding a complete archive
    partial,        \* cache paths holding a truncated archive
    merged_csv,     \* the merged output file of each pair (<<>>: not written)
    netlog,         \* every network request issued so far, oldest first
    since_req,      \* time slept since the last request of this run (-1: none)
    results,        \* what main printed for each pair in this run
    last_act,       \* what the last loop iteration did with its key
    run,            \* number of invocations of main so far
    failures,       \* failing responses the network has given so far
    dFiles,         \* SpecData: a cache directory, archives in filename order
    dPeriod,        \* SpecData: the period argument
    dOp,            \* SpecData: the operation applied ("idle": none yet)
    dOut            \* SpecData: what the operation returned or raised

driverVars == <<start_date, end_date, verify_only, pc, pair_idx, current_date,
                visited, cached, partial, merged_csv, netlog, since_req,
                results, last_act, run, failures>>
dataVars == <<dFiles, dPeriod, dOp, dOut>>
vars == <<driverVars, dataVars>>

---------------------------------------------------------------------------
(* Bounds of the model *)

\* invocations of main() in one behaviour
MaxRuns == 2
\* failing network responses (non-200, transport error, broken stream)
MaxFailures == 1
\* rows of one archive's payload in SpecData
MaxRows == 2
\* archives of one cache directory in SpecData
MaxFiles == 2

---------------------------------------------------------------------------
(* Program constants *)

\* time.sleep(2)
Delay == 2
\* DownloaderConfig.min_rows_per_file
MinRowsPerFile == 1000
\* one hour in milliseconds, the unit of 'Open time'
HourMs == 3600000

\* DownloaderConfig.columns
ConfigColumns ==
    {"Open time", "Open", "High", "Low", "Close", "Volume", "Close time",
     "Quote asset volume", "Number of trades", "Taker buy base asset volume",
     "Taker buy quote asset volume", "Ignore"}

\* DownloaderConfig.expected_timeframe, in milliseconds
ExpectedTimeframe ==
    [p \in {"1m", "5m", "15m", "1h", "4h", "1d"} |->
        CASE p = "1m" -> 60000
          [] p = "5m" -> 300000
          [] p = "15m" -> 900000
          [] p = "1h" -> HourMs
          [] p = "4h" -> 4 * HourMs
          [] p = "1d" -> 24 * HourMs]

---------------------------------------------------------------------------
(* Dates: datetime and relativedelta(months=1) *)

IsLeap(y) == (y % 4 = 0 /\ y % 100 # 0) \/ y % 400 = 0

DaysInMonth(y, m) ==
    IF m = 2 THEN (IF IsLeap(y) THEN 29 ELSE 28)
    ELSE IF m \in {4, 6, 9, 11} THEN 30 ELSE 31

Date(y, m, d) == [y |-> y, m |-> m, d |-> d]

\* datetime.__le__
DateLE(a, b) ==
    \/ a.y < b.y
    \/ a.y = b.y /\ a.m < b.m
    \/ a.y = b.y /\ a.m = b.m /\ a.d <= b.d

\* date + relativedelta(months=1): the month advances, the day is clamped to
\* the length of the new month (and stays clamped on the next addition)
AddMonth(dt) ==
    LET y2 == IF dt.m = 12 THEN dt.y + 1 ELSE dt.y
        m2 == IF dt.m = 12 THEN 1 ELSE dt.m + 1
        dim == DaysInMonth(y2, m2)
    IN Date(y2, m2, IF dt.d > dim THEN dim ELSE dt.d)

---------------------------------------------------------------------------
(* Cells, rows and frames.  A cell is <<>> (null, NaN, NaT) or <<v>>.       *)

Null == <<>>
Cell(v) == <<v>>
IsNull(c) == c = <<>>
Val(c) == c[1]

\* one payload row; rest stands for the five trailing columns, which no
\* code of the pipeline reads
Row(ot, o, h, l, c) ==
    [ot |-> ot, open |-> o, high |-> h, low |-> l, close |-> c,
     volume |-> Cell(1), ct |-> ot, rest |-> Cell(0)]

RowCells(r) == {r.ot, r.open, r.high, r.low, r.close, r.volume, r.ct, r.rest}

\* a DataFrame: its column labels and its rows
Frame(cols, rows) == [columns |-> cols, rows |-> rows]

\* the outcome of a call: a returned value or a raised exception
Return(v) == [raised |-> "none", value |-> v]
Raise(e) == [raised |-> e, value |-> <<>>]

---------------------------------------------------------------------------
(* _validate_klines_data *)

\* Series.diff() of 'Open time': NaN for the first row and where a cell is null
TimeDiffs(rows) ==
    [i \in 1..Len(rows) |->
        IF i = 1 \/ IsNull(rows[i].ot) \/ IsNull(rows[i - 1].ot)
        THEN [t |-> "nan"]
        ELSE [t |-> "num", v |-> Val(rows[i].ot) - Val(rows[i - 1].ot)]]

\* time_diffs != expected_interval: the diffs are plain numbers (the column is
\* still in raw milliseconds when the validator runs) and the interval is a
\* Timedelta, so every comparison is between values of different types
InvalidIntervals(rows, period) ==
    LET expected_interval == [t |-> "timedelta", v |-> ExpectedTimeframe[period]]
        time_diffs == TimeDiffs(rows)
    IN {i \in 1..Len(rows) : time_diffs[i] # expected_interval}

NonPositive(rows, col) ==
    \E i \in 1..Len(rows) : ~IsNull(rows[i][col]) /\ Val(rows[i][col]) <= 0

NonPositiveWarning ==
    [open |-> "non-positive Open", high |-> "non-positive High",
     low |-> "non-positive Low", close |-> "non-positive Close"]

\* the warnings the validator logs for a frame that passes its two hard checks
Warnings(df, period) ==
    LET rows == df.rows IN
       {"missing values" : x \in
            {i \in 1..Len(rows) : \E c \in RowCells(rows[i]) : IsNull(c)}}
    \cup (IF Len(rows) < MinRowsPerFile THEN {"fewer rows than expected"} ELSE {})
    \cup (IF period \in DOMAIN ExpectedTimeframe
             /\ InvalidIntervals(rows, period) # {}
          THEN {"irregular time intervals"} ELSE {})
    \cup {NonPositiveWarning[col] : col \in
            {c \in {"open", "high", "low", "close"} : NonPositive(rows, c)}}
    \cup {"high lower than low" : x \in
            {i \in 1..Len(rows) :
                /\ ~IsNull(rows[i].high) /\ ~IsNull(rows[i].low)
                /\ Val(rows[i].high) < Val(rows[i].low)}}

ValidateKlinesData(df, period) ==
    LET missing_cols == ConfigColumns \ df.columns IN
    IF missing_cols # {} THEN Raise("ValueError")
    ELSE IF df.rows = <<>> THEN Raise("ValueError")
    ELSE Return(Warnings(df, period))

---------------------------------------------------------------------------
(* read_klines_file *)

\* a local path: no file, a file that is no readable zip, or a zip with
\* csv members named *.csv whose first one holds the payload rows
Absent == [kind |-> "absent"]
Corrupt == [kind |-> "corrupt"]
Zip(csv, rows) == [kind |-> "zip", csv |-> csv, rows |-> rows]

\* the names bound at module level of download_data.py
ModuleGlobals ==
    {"datetime", "merge", "relativedelta", "requests", "shutil", "pd",
     "ZipFile", "time", "os", "itertools", "re", "logging", "dataclass",
     "Path", "Optional", "List", "columns", "DownloaderConfig",
     "BinanceDataDownloader", "download_spot_klines_range",
     "read_history_file", "merge_history_file", "download_symbol", "main"}

\* the parameters and local names of read_klines_file
ReadLocals ==
    {"self", "zip_path", "zf", "csv_name", "csv_file", "df", "name",
     "numeric_columns", "e"}

\* pd.to_datetime(column, unit='ms'): an instant, NaT for a null cell
ToDatetime(c) == IF IsNull(c) THEN Null ELSE Cell([ms |-> Val(c)])
\* astype(float): a float, NaN for a null cell
AsFloat(c) == IF IsNull(c) THEN Null ELSE Cell([float |-> Val(c)])

DecodeRow(r) ==
    [r EXCEPT !.ot = ToDatetime(r.ot), !.ct = ToDatetime(r.ct),
              !.open = AsFloat(r.open), !.high = AsFloat(r.high),
              !.low = AsFloat(r.low), !.close = AsFloat(r.close),
              !.volume = AsFloat(r.volume)]

\* the outcome of read_klines_file on a local path
ReadKlinesFile(zip_path) ==
    IF zip_path.kind = "absent" THEN Raise("FileNotFoundError")
    ELSE IF zip_path.kind = "corrupt" THEN Raise("BadZipFile")
    ELSE IF zip_path.csv = 0 THEN Raise("StopIteration")
    ELSE \* pd.read_csv(header=None, names=columns): a frame with the twelve
         \* columns of the schema, with no rows when the member is empty
         LET df == Frame(ConfigColumns, zip_path.rows) IN
         \* self._validate_klines_data(df, period): the name period is looked
         \* up, in the function's locals and then in the module's globals,
         \* when the call is evaluated
         IF "period" \notin ReadLocals \cup ModuleGlobals THEN Raise("NameError")
         ELSE LET v == ValidateKlinesData(df, "period") IN
              IF v.raised # "none" THEN Raise(v.raised)
              ELSE Return([i \in 1..Len(df.rows) |-> DecodeRow(df.rows[i])])

---------------------------------------------------------------------------
(* merge_klines_files *)

\* the for loop of merge_klines_files: read each archive in filename order
\* and append its rows; the first exception ends the loop
RECURSIVE ReadAll(_, _, _)
ReadAll(zip_files, i, merged_df) ==
    IF i > Len(zip_files) THEN Return(merged_df)
    ELSE LET df == ReadKlinesFile(zip_files[i]) IN
         IF df.raised # "none" THEN df
         ELSE ReadAll(zip_files, i + 1, merged_df \o df.value)

\* the order of sort_values('Open time'): ascending, NaT last
TimeLT(a, b) ==
    /\ ~IsNull(a)
    /\ (IsNull(b) \/ Val(a).ms < Val(b).ms)

\* the distinct open times of rows, in sort order
RECURSIVE SortedTimes(_)
SortedTimes(times) ==
    IF times = {} THEN <<>>
    ELSE LET t == CHOOSE x \in times : \A z \in times \ {x} : TimeLT(x, z)
         IN <<t>> \o SortedTimes(times \ {t})

\* sort_values('Open time').drop_duplicates(subset=['Open time']): one row
\* per distinct open time, ascending.  sort_values sorts with its default
\* kind, quicksort, which does not keep the order of rows with equal keys:
\* any row of a group of equal open times may come first and be the one kept
RECURSIVE KeepFirst(_, _)
KeepFirst(rows, times) ==
    IF times = <<>> THEN {<<>>}
    ELSE LET group == {i \in 1..Len(rows) : rows[i].ot = Head(times)} IN
         {<<rows[i]>> \o rest : i \in group, rest \in KeepFirst(rows, Tail(times))}

SortDropDuplicates(rows) ==
    KeepFirst(rows, SortedTimes({rows[i].ot : i \in 1..Len(rows)}))

\* every outcome merge_klines_files can have on a directory (dir_exists) whose
\* zip files, sorted by name, are zip_files
MergeKlinesFiles(dir_exists, zip_files) ==
    IF ~dir_exists THEN {Raise("FileNotFoundError")}
    ELSE IF zip_files = <<>> THEN {Raise("FileNotFoundError")}
    ELSE LET merged_df == ReadAll(zip_files, 1, <<>>) IN
         IF merged_df.raised # "none" THEN {merged_df}
         ELSE {Return(s) : s \in SortDropDuplicates(merged_df.value)}

---------------------------------------------------------------------------
(* verify_data_integrity *)

MinOf(S) == CHOOSE x \in S : \A z \in S : x <= z
MaxOf(S) == CHOOSE x \in S : \A z \in S : z <= x

\* actual_periods < expected_periods * 0.95 with
\* expected_periods = span / interval, computed exactly:
\* actual * 20 * interval < 19 * span, split to stay within 32 bits
TooFew(actual_periods, span, interval) ==
    LET q == span \div interval
        r == span % interval
        a == actual_periods * 20 - 19 * q
    IN IF a < 0 THEN TRUE
       ELSE IF a >= 19 THEN FALSE
       ELSE a * interval < 19 * r

\* the audit of one merged frame
IntegrityOf(df, period) ==
    LET times == {Val(df[i].ot).ms : i \in {j \in 1..Len(df) : ~IsNull(df[j].ot)}} IN
    IF period \notin DOMAIN ExpectedTimeframe THEN FALSE      \* KeyError, caught
    ELSE IF times = {} THEN TRUE                             \* NaT span: no comparison holds
    ELSE ~TooFew(Len(df), MaxOf(times) - MinOf(times), ExpectedTimeframe[period])

\* every result verify_data_integrity can return
VerifyDataIntegrity(dir_exists, zip_files, period) ==
    {IF m.raised # "none" THEN FALSE ELSE IntegrityOf(m.value, period) :
        m \in MergeKlinesFiles(dir_exists, zip_files)}

---------------------------------------------------------------------------
(* The driver's world: pairs, cache keys, the remote host *)

\* args.symbols and args.periods
Symbols == <<"BTCUSDT", "ETHUSDT">>
Periods == <<"1h">>

\* itertools.product(args.symbols, args.periods), in its order
Pairs ==
    [i \in 1..(Len(Symbols) * Len(Periods)) |->
        [symbol |-> Symbols[((i - 1) \div Len(Periods)) + 1],
         period |-> Periods[((i - 1) % Len(Periods)) + 1]]]

\* the values --start-date and --end-date take: a single day, ranges within
\* one year that start and end on various days of the month, a range that
\* runs over the end of a year, a range of 14 months, and inverted ranges
DateRanges ==
    {<<Date(2020, 1, 1), Date(2020, 1, 1)>>,
     <<Date(2020, 1, 1), Date(2020, 3, 1)>>,
     <<Date(2020, 1, 31), Date(2020, 3, 1)>>,
     <<Date(2020, 2, 15), Date(2020, 3, 1)>>,
     <<Date(2020, 12, 1), Date(2021, 1, 31)>>,
     <<Date(2020, 1, 1), Date(2021, 2, 1)>>,
     <<Date(2020, 3, 1), Date(2020, 1, 1)>>,
     <<Date(2020, 1, 31), Date(2020, 1, 1)>>}

\* the cache path <data_path>/<symbol>/<period>/<symbol>-<period>-<YYYY>-<MM>.zip
PathOf(i, dt) == [pair |-> i, y |-> dt.y, m |-> dt.m]

\* months since January 2020
MonthIndex(y, m) == (y - 2020) * 12 + (m - 1)

\* the archive the remote host serves for a key: two hourly rows, the second
\* at the open time of the next month's first row (an overlapping boundary)
RemoteArchive(k) ==
    LET n == MonthIndex(k.y, k.m)
        c == Cell(1 + (n % 2))
    IN Zip(1, <<Row(Cell(n * HourMs), c, c, c, c),
                Row(Cell((n + 1) * HourMs), c, c, c, c)>>)

\* input_dir.exists() for the pair's cache directory
DirExists(i, files) == \E k \in files : k.pair = i

\* sorted(input_dir.glob("*.zip")): the pair's cache paths in filename order
\* (for one symbol and period the names differ in <YYYY>-<MM> only)
SortedPaths(keys) ==
    [j \in 1..Cardinality(keys) |->
        CHOOSE k \in keys :
            Cardinality({z \in keys : MonthIndex(z.y, z.m) < MonthIndex(k.y, k.m)}) = j - 1]

\* the content of the pair's cache paths, in filename order
ZipFiles(i, complete, truncated) ==
    LET paths == SortedPaths({k \in complete \cup truncated : k.pair = i}) IN
    [j \in 1..Len(paths) |->
        IF paths[j] \in complete THEN RemoteArchive(paths[j]) ELSE Corrupt]

---------------------------------------------------------------------------
(* download_spot_klines *)

\* what the remote host and the transport can answer to one request:
\*   ok         status 200 and the whole body
\*   truncated  status 200, the stream breaks while the body is copied
\*   status     a status other than 200
\*   exception  session.get raises
Responses == {"ok", "truncated", "status", "exception"}

\* the mutant: no except clause, an exception leaves the function
DownloadSpotKlinesNoExcept(resp) ==
    CASE resp = "ok" -> [ret |-> TRUE, raised |-> FALSE, file |-> "complete"]
      [] resp = "truncated" -> [ret |-> FALSE, raised |-> TRUE, file |-> "partial"]
      [] resp = "status" -> [ret |-> FALSE, raised |-> FALSE, file |-> "none"]
      [] resp = "exception" -> [ret |-> FALSE, raised |-> TRUE, file |-> "none"]

\* the return value of download_spot_klines, whether an exception leaves it,
\* and what it leaves at path: open(path, 'wb') creates the file before the
\* body is copied, and nothing removes it when the copy fails
DownloadSpotKlines(resp) ==
    CASE resp = "ok" -> [ret |-> TRUE, raised |-> FALSE, file |-> "complete"]
      [] resp = "truncated" -> [ret |-> FALSE, raised |-> FALSE, file |-> "partial"]
      [] resp = "status" -> [ret |-> FALSE, raised |-> FALSE, file |-> "none"]
      [] resp = "exception" -> [ret |-> FALSE, raised |-> FALSE, file |-> "none"]

---------------------------------------------------------------------------
(* main *)

NoResult == [merged |-> FALSE, integrity |-> "none", error |-> "none"]

\* the mutant: the exists check is missing, every key is downloaded
PathExistsNever(k) == FALSE

\* path.exists() (line 410)
PathExists(k) == k \in cached \cup partial

\* the mutant: the delay of the older download_spot_klines_range, which
\* sleeps after every request
SleepAlways(success) == Delay

\* if success: time.sleep(2) (lines 412-413): the time slept after a request
SleepAfter(success) == IF success THEN Delay ELSE 0

\* while current_date <= end_date (line 408)
LoopGuard == DateLE(current_date, end_date)

\* lines 417-428 for pair i: every (printed result, merged output file) the
\* merge and the verification that follows it can give
MergeAndVerify(i) ==
    LET dir_exists == DirExists(i, cached \cup partial)
        zip_files == ZipFiles(i, cached, partial)
        period == Pairs[i].period
    IN UNION {
        IF m.raised # "none"
        THEN {[result |-> [merged |-> FALSE, integrity |-> "none", error |-> m.raised],
               csv |-> merged_csv[i]]}
        ELSE {[result |-> [merged |-> TRUE,
                           integrity |-> IF ok THEN "passed" ELSE "failed",
                           error |-> "none"],
               csv |-> m.value] :
                 ok \in VerifyDataIntegrity(dir_exists, zip_files, period)}
        : m \in MergeKlinesFiles(dir_exists, zip_files)}

\* lines 398-404: in verify-only mode the pair is audited and the loop goes on
VerifyOnlyPair ==
    /\ pc = "for"
    /\ pair_idx <= Len(Pairs)
    /\ verify_only
    /\ \E ok \in VerifyDataIntegrity(DirExists(pair_idx, cached \cup partial),
                                     ZipFiles(pair_idx, cached, partial),
                                     Pairs[pair_idx].period) :
          results' = [results EXCEPT ![pair_idx] =
                        [merged |-> FALSE,
                         integrity |-> IF ok THEN "passed" ELSE "failed",
                         error |-> "none"]]
    /\ pair_idx' = pair_idx + 1
    /\ UNCHANGED <<start_date, end_date, verify_only, pc, current_date, visited,
                   cached, partial, merged_csv, netlog, since_req, last_act,
                   run, failures, dataVars>>

\* line 407: current_date = start_date
BeginDownload ==
    /\ pc = "for"
    /\ pair_idx <= Len(Pairs)
    /\ ~verify_only
    /\ current_date' = start_date
    /\ visited' = <<>>
    /\ pc' = "while"
    /\ UNCHANGED <<start_date, end_date, verify_only, pair_idx, cached, partial,
                   merged_csv, netlog, since_req, results, last_act, run,
                   failures, dataVars>>

\* lines 408-414, one iteration whose path exists: nothing is requested
SkipCached ==
    /\ pc = "while"
    /\ LoopGuard
    /\ LET path == PathOf(pair_idx, current_date) IN
        /\ PathExists(path)
        /\ visited' = Append(visited, <<current_date.y, current_date.m>>)
        /\ last_act' = [kind |-> "skip", key |-> path]
    /\ current_date' = AddMonth(current_date)
    /\ UNCHANGED <<start_date, end_date, verify_only, pc, pair_idx, cached,
                   partial, merged_csv, netlog, since_req, results, run,
                   failures, dataVars>>

\* lines 408-414, one iteration whose path does not exist: the archive is
\* requested, the driver sleeps if the download succeeded, the date advances;
\* an exception leaving download_spot_klines would end main
Download ==
    /\ pc = "while"
    /\ LoopGuard
    /\ LET path == PathOf(pair_idx, current_date) IN
        /\ ~PathExists(path)
        /\ \E resp \in Responses :
            LET r == DownloadSpotKlines(resp) IN
            /\ resp # "ok" => failures < MaxFailures
            /\ failures' = IF resp = "ok" THEN failures ELSE failures + 1
            /\ cached' = IF r.file = "complete" THEN cached \cup {path}
                         ELSE cached \ (IF r.file = "partial" THEN {path} ELSE {})
            /\ partial' = IF r.file = "partial" THEN partial \cup {path}
                          ELSE partial \ (IF r.file = "complete" THEN {path} ELSE {})
            /\ netlog' = Append(netlog, [key |-> path, outcome |-> resp,
                                         gap |-> since_req])
            /\ IF r.raised
               THEN /\ pc' = "aborted"
                    /\ UNCHANGED <<since_req, current_date>>
               ELSE /\ pc' = pc
                    /\ since_req' = SleepAfter(r.ret)
                    /\ current_date' = AddMonth(current_date)
        /\ visited' = Append(visited, <<current_date.y, current_date.m>>)
        /\ last_act' = [kind |-> "request", key |-> path]
    /\ UNCHANGED <<start_date, end_date, verify_only, pair_idx, merged_csv,
                   results, run, dataVars>>

\* lines 416-428: the loop is over; merge, verify, report, next pair
FinishPair ==
    /\ pc = "while"
    /\ ~LoopGuard
    /\ \E o \in MergeAndVerify(pair_idx) :
        /\ results' = [results EXCEPT ![pair_idx] = o.result]
        /\ merged_csv' = [merged_csv EXCEPT ![pair_idx] = o.csv]
    /\ pair_idx' = pair_idx + 1
    /\ pc' = "for"
    /\ UNCHANGED <<start_date, end_date, verify_only, current_date, visited,
                   cached, partial, netlog, since_req, last_act, run, failures,
                   dataVars>>

\* the for loop of line 397 is exhausted: main returns
Return_main ==
    /\ pc = "for"
    /\ pair_idx > Len(Pairs)
    /\ pc' = "done"
    /\ UNCHANGED <<start_date, end_date, verify_only, pair_idx, current_date,
                   visited, cached, partial, merged_csv, netlog, since_req,
                   results, last_act, run, failures, dataVars>>

\* the command is invoked again with the same arguments over the cache the
\* earlier runs left
Rerun ==
    /\ pc = "done"
    /\ run < MaxRuns
    /\ run' = run + 1
    /\ pc' = "for"
    /\ pair_idx' = 1
    /\ current_date' = start_date
    /\ visited' = <<>>
    /\ since_req' = -1
    /\ results' = [i \in 1..Len(Pairs) |-> NoResult]
    /\ last_act' = [kind |-> "none", key |-> PathOf(1, start_date)]
    /\ UNCHANGED <<start_date, end_date, verify_only, cached, partial,
                   merged_csv, netlog, failures, dataVars>>

DataIdle ==
    /\ dFiles = <<>>
    /\ dPeriod = "1h"
    /\ dOp = [name |-> "idle", arg |-> 0]
    /\ dOut = Return(<<>>)

Init ==
    /\ \E range \in DateRanges :
        /\ start_date = range[1]
        /\ end_date = range[2]
    /\ verify_only \in BOOLEAN
    /\ pc = "for"
    /\ pair_idx = 1
    /\ current_date = start_date
    /\ visited = <<>>
    /\ cached = {}
    /\ partial = {}
    /\ merged_csv = [i \in 1..Len(Pairs) |-> <<>>]
    /\ netlog = <<>>
    /\ since_req = -1
    /\ results = [i \in 1..Len(Pairs) |-> NoResult]
    /\ last_act = [kind |-> "none", key |-> PathOf(1, start_date)]
    /\ run = 1
    /\ failures = 0
    /\ DataIdle

Next ==
    \/ VerifyOnlyPair
    \/ BeginDownload
    \/ SkipCached
    \/ Download
    \/ FinishPair
    \/ Return_main
    \/ Rerun

Spec == Init /\ [][Next]_vars

---------------------------------------------------------------------------
(* SpecData: the parser, the validator, the merger and the verifier applied *)
(* to cache directories drawn from a pool of archives                       *)

\* payload rows: three regular hourly rows, a second row for hour 1 with
\* other prices, a row with a null cell, one with a non-positive price, one
\* with high < low, and a row twenty hours on (a series with a gap)
RowPool ==
    {Row(Cell(0), Cell(1), Cell(2), Cell(1), Cell(1)),
     Row(Cell(HourMs), Cell(1), Cell(2), Cell(1), Cell(1)),
     Row(Cell(HourMs), Cell(2), Cell(2), Cell(2), Cell(2)),
     Row(Cell(2 * HourMs), Null, Cell(2), Cell(1), Cell(1)),
     Row(Cell(2 * HourMs), Cell(0), Cell(2), Cell(1), Cell(1)),
     Row(Cell(2 * HourMs), Cell(1), Cell(1), Cell(2), Cell(1)),
     Row(Cell(20 * HourMs), Cell(1), Cell(2), Cell(1), Cell(1))}

Batches == UNION {[1..n -> RowPool] : n \in 0..MaxRows}

\* a truncated file, a zip without a csv member, zips with one csv member
ArchivePool == {Corrupt, Zip(0, <<>>)} \cup {Zip(1, b) : b \in Batches}

Directories == UNION {[1..n -> ArchivePool] : n \in 0..MaxFiles}

\* a period of expected_timeframe and one that is not in it
DataPeriods == {"1h", "3m"}

\* the frame pd.read_csv builds has every column of the schema; a caller of
\* the validator may also hand it a frame that lacks one
ColumnSets == {ConfigColumns, ConfigColumns \ {"Volume"}}

\* the local path the i-th read is given: a file of the directory, or a path
\* with no file behind it
PathAt(i) == IF i <= Len(dFiles) THEN dFiles[i] ELSE Absent

DataRead ==
    /\ dOp.name = "idle"
    /\ \E i \in 1..(Len(dFiles) + 1) :
        /\ dOut' = ReadKlinesFile(PathAt(i))
        /\ dOp' = [name |-> "read", arg |-> i]
    /\ UNCHANGED <<dFiles, dPeriod, driverVars>>

DataValidate ==
    /\ dOp.name = "idle"
    /\ \E i \in 1..Len(dFiles) : \E cols \in ColumnSets :
        /\ dFiles[i].kind = "zip"
        /\ dFiles[i].csv > 0
        /\ dOut' = ValidateKlinesData(Frame(cols, dFiles[i].rows), dPeriod)
        /\ dOp' = [name |-> "validate", arg |-> i, columns |-> cols]
    /\ UNCHANGED <<dFiles, dPeriod, driverVars>>

DataMerge ==
    /\ dOp.name = "idle"
    /\ \E dir_exists \in (IF dFiles = <<>> THEN BOOLEAN ELSE {TRUE}) :
        /\ dOut' \in MergeKlinesFiles(dir_exists, dFiles)
        /\ dOp' = [name |-> "merge", arg |-> 0]
    /\ UNCHANGED <<dFiles, dPeriod, driverVars>>

DataVerify ==
    /\ dOp.name = "idle"
    /\ \E dir_exists \in (IF dFiles = <<>> THEN BOOLEAN ELSE {TRUE}) :
       \E ok \in VerifyDataIntegrity(dir_exists, dFiles, dPeriod) :
        /\ dOut' = Return(ok)
        /\ dOp' = [name |-> "verify", arg |-> 0]
    /\ UNCHANGED <<dFiles, dPeriod, driverVars>>

DriverIdle ==
    /\ start_date = Date(2020, 1, 1)
    /\ end_date = Date(2020, 1, 1)
    /\ verify_only = FALSE
    /\ pc = "for"
    /\ pair_idx = 1
    /\ current_date = start_date
    /\ visited = <<>>
    /\ cached = {}
    /\ partial = {}
    /\ merged_csv = [i \in 1..Len(Pairs) |-> <<>>]
    /\ netlog = <<>>
    /\ since_req = -1
    /\ results = [i \in 1..Len(Pairs) |-> NoResult]
    /\ last_act = [kind |-> "none", key |-> PathOf(1, start_date)]
    /\ run = 1
    /\ failures = 0

InitData ==
    /\ DriverIdle
    /\ dFiles \in Directories
    /\ dPeriod \in DataPeriods
    /\ dOp = [name |-> "idle", arg |-> 0]
    /\ dOut = Return(<<>>)

NextData == DataRead \/ DataValidate \/ DataMerge \/ DataVerify

SpecData == InitData /\ [][NextData]_vars

---------------------------------------------------------------------------
(* Properties of the parser, validator, merger and verifier (SpecData) *)

\* an archive the parser is meant to accept: a readable zip with one csv
\* member and at least one 12-field row
Readable(z) == z.kind = "zip" /\ z.csv = 1 /\ z.rows # <<>>

AllReadable == dFiles # <<>> /\ \A i \in 1..Len(dFiles) : Readable(dFiles[i])

\* the rows of all archives of the directory, in filename order
RECURSIVE Concatenation(_)
Concatenation(files) ==
    IF files = <<>> THEN <<>> ELSE Head(files).rows \o Concatenation(Tail(files))

\* C1: read_klines_file on a readable zip with one CSV member of 12-field
\* rows returns one decoded row per payload row; it fails with NotFound
\* (FileNotFoundError) when the path is absent, with BadArchive (BadZipFile,
\* no csv member) when the archive is unreadable or has no tabular member,
\* and in no other way.
ParseReturnsEveryRow ==
    dOp.name = "read" =>
        LET z == PathAt(dOp.arg) IN
        /\ z.kind = "absent" => dOut.raised = "FileNotFoundError"
        /\ z.kind = "corrupt" => dOut.raised = "BadZipFile"
        /\ (z.kind = "zip" /\ z.csv = 0) => dOut.raised = "StopIteration"
        /\ Readable(z) =>
            /\ dOut.raised = "none"
            /\ Len(dOut.value) = Len(z.rows)
            /\ \A i \in 1..Len(z.rows) : dOut.value[i] = DecodeRow(z.rows[i])

\* C2: merge_klines_files on readable archives, overlapping or not, returns
\* a series with exactly one row per distinct open time of the concatenated
\* input, strictly ascending by open time, keeping for each open time the
\* row that comes first in the filename-ordered concatenation.
MergeKeepsFirstPerOpenTime ==
    (dOp.name = "merge" /\ AllReadable) =>
        LET all == Concatenation(dFiles)
            first == {i \in 1..Len(all) : \A j \in 1..(i - 1) : all[j].ot # all[i].ot}
        IN /\ dOut.raised = "none"
           /\ Len(dOut.value) = Cardinality(first)
           /\ \A i \in 1..(Len(dOut.value) - 1) :
                TimeLT(dOut.value[i].ot, dOut.value[i + 1].ot)
           /\ \A i \in 1..Len(dOut.value) :
                \E j \in first : dOut.value[i] = DecodeRow(all[j])

\* C7: verify_data_integrity returns false exactly when the series' row
\* count is below 0.95 * (max(open_time) - min(open_time)) / cadence, and
\* true otherwise.
VerifyIsNinetyFivePercentRule ==
    (dOp.name = "verify" /\ AllReadable /\ dPeriod \in DOMAIN ExpectedTimeframe) =>
        LET all == Concatenation(dFiles)
            times == {Val(all[i].ot) : i \in 1..Len(all)}
            count == Cardinality(times)
            span == MaxOf(times) - MinOf(times)
        IN dOut.value = ~(count * 20 * ExpectedTimeframe[dPeriod] < 19 * span)

\* C8: the validator raises only when a required column is absent or the
\* batch has no rows; a batch with any other anomaly (a null cell, few rows,
\* an irregular gap, a non-positive price, high < low) draws warnings only
\* and the parser still returns it.
OnlyStructuralErrorsAreHard ==
    /\ dOp.name = "validate" =>
        LET df == Frame(dOp.columns, dFiles[dOp.arg].rows) IN
        (dOut.raised # "none") <=> (df.columns # ConfigColumns \/ df.rows = <<>>)
    /\ (dOp.name = "read" /\ Readable(PathAt(dOp.arg))) =>
        /\ dOut.raised = "none"
        /\ Len(dOut.value) = Len(PathAt(dOp.arg).rows)

---------------------------------------------------------------------------
(* Properties of the driver (Spec) *)

\* the number of requests issued for key k
Requests(log, k) == Cardinality({i \in 1..Len(log) : log[i].key = k})

\* C3: in every run and re-run a key whose local path exists is not
\* requested: a step that issues a request issues it for a path that did not
\* exist before the step, and a step that passes over an existing path
\* issues no request and leaves the cache as it is.
CachedNeverRequested ==
    [][/\ netlog' # netlog =>
            /\ netlog' = Append(netlog, netlog'[Len(netlog')])
            /\ netlog'[Len(netlog')].key \notin cached \cup partial
       /\ (last_act' # last_act /\ last_act'.kind = "skip") =>
            /\ last_act'.key \in cached \cup partial
            /\ UNCHANGED <<netlog, cached, partial, failures>>
            /\ pc' # "aborted"]_vars

\* C3 witness: a second run has passed over a key that the first run
\* downloaded, and the key has been requested once in all.
CachedKeySkipped ==
    /\ run = 2
    /\ last_act.kind = "skip"
    /\ last_act.key \in cached
    /\ Requests(netlog, last_act.key) = 1

\* C4: archive writes are all-or-nothing: a cache path is absent or holds the
\* complete archive, and the driver never skips a key whose file is truncated.
ArchiveWritesAllOrNothing ==
    /\ partial = {}
    /\ last_act.kind = "skip" => last_act.key \in cached

\* the calendar months from a's month through b's month, both included
MonthRange(a, b) ==
    [i \in 1..(MonthIndex(b.y, b.m) - MonthIndex(a.y, a.m) + 1) |->
        LET n == MonthIndex(a.y, a.m) + i - 1
        IN <<2020 + (n \div 12), (n % 12) + 1>>]

\* C5: for start_date <= end_date the keys the loop has gone through when it
\* ends are exactly the calendar months from start_date's month through
\* end_date's month, in ascending order, whatever the days of the month.
PlanCoversEveryMonth ==
    (pc = "while" /\ ~LoopGuard /\ DateLE(start_date, end_date)) =>
        visited = MonthRange(start_date, end_date)

Processed(i) == results[i] # NoResult

\* C6: a failure of a fetch, a merge or a verification never stops the run:
\* main is never ended by an exception, every pair before the one the for
\* loop is at has been processed, and a run that is over has processed every
\* pair of the batch.
BatchSurvivesFailures ==
    /\ pc # "aborted"
    /\ \A i \in 1..(pair_idx - 1) : Processed(i)
    /\ pc = "done" => \A i \in 1..Len(Pairs) : Processed(i)

\* C6 witness: the run is over, a fetch of the first pair failed, the merge
\* of the first pair failed, and the second pair was processed all the same.
LaterPairProcessedAfterFailure ==
    /\ pc = "done"
    /\ \E j \in 1..Len(netlog) : netlog[j].key.pair = 1 /\ netlog[j].outcome # "ok"
    /\ results[1].error # "none"
    /\ Processed(2)
    /\ \E j \in 1..Len(netlog) : netlog[j].key.pair = 2 /\ netlog[j].outcome = "ok"

InvertedRange == ~DateLE(start_date, end_date)

\* C9: with start_date > end_date the planner fails with InvalidRange: no
\* month key, no fetch, and the driver gets an error in place of a plan, so
\* that it does not go on to merge and report the pair.
InvertedRangeIsRejected ==
    (InvertedRange /\ ~verify_only) =>
        /\ visited = <<>>
        /\ netlog = <<>>
        /\ \A i \in 1..Len(Pairs) : ~Processed(i)

\* C10 as stated: between any two successive requests of a run the driver
\* has waited the delay, whether the first of the two succeeded or failed.
DelayBetweenAllRequests ==
    \A i \in 1..Len(netlog) : netlog[i].gap # -1 => netlog[i].gap >= Delay

\* C10 as amended: the first request of a run waits for nothing; a request
\* that follows a successful one comes after the delay, and a request that
\* follows a failed one comes with no delay at all.
DelayAfterSuccessOnly ==
    \A i \in 1..Len(netlog) :
        \/ netlog[i].gap = -1
        \/ /\ i > 1
           /\ netlog[i].gap = IF netlog[i - 1].outcome = "ok" THEN Delay ELSE 0

\* C10 witness: one request followed a failed one with no delay, and another
\* followed a successful one after the delay.
RequestsAfterFailureAndSuccess ==
    /\ \E i \in 2..Len(netlog) : netlog[i - 1].outcome # "ok" /\ netlog[i].gap = 0
    /\ \E i \in 2..Len(netlog) : netlog[i - 1].outcome = "ok" /\ netlog[i].gap = Delay

====
